---- MODULE Spec2Model ----
(***************************************************************************)
(* LineIndex, linemerge and linesort of vpype_cli/operations.py.           *)
(*                                                                         *)
(* A point is a pair <<x, y>> of integers (the source's complex number),   *)
(* in units of 1/Scale of a grid step, so that the midpoints the merge     *)
(* computes stay exact.  Distances are compared by their squares.  A       *)
(* polyline is a non-empty sequence of points, a collection a sequence of  *)
(* polylines.  Positions in a sequence are 1-based here and 0-based in the *)
(* source: position i here is index i-1 there, and None is 0.              *)
(***************************************************************************)
EXTENDS Integers, Sequences, FiniteSets, TLC

(* ------------------------------ bounds -------------------------------- *)

\* Longest collection built freely from the palette of polylines.
MaxLines == 3

\* How many polylines a generated (large) collection has beyond the sample
\* size of the query that scans it.
MaxExtra == 2

\* pop is called with an index that no query returned for the MaxEdge first
\* and the MaxEdge last entries of a LineIndex.
MaxEdge == 2

(* -------------------------- program constants ------------------------- *)

\* k of the bounded query (operations.py:113)
K_WITHIN == 50

\* k of the unbounded query (operations.py:152)
K_NEAREST == 100

\* "nothing found" (None); also the position before the first one
None == 0

(* ------------------------------ geometry ------------------------------ *)

Scale == 2 * 2 * 2 * 2

Pt(x, y) == <<x * Scale, y * Scale>>

\* |a - b|^2
Dist2(a, b) == (a[1] - b[1]) * (a[1] - b[1]) + (a[2] - b[2]) * (a[2] - b[2])

\* 0.5 * (a + b)
Mid(a, b) == <<(a[1] + b[1]) \div 2, (a[2] + b[2]) \div 2>>

\* whether 0.5 * (a + b) is a point of the model's grid
MidExact(a, b) == (a[1] + b[1]) % 2 = 0 /\ (a[2] + b[2]) % 2 = 0

\* np.flip(line)
Flip(line) == [i \in 1..Len(line) |-> line[Len(line) + 1 - i]]

First(line) == line[1]

Last(line) == line[Len(line)]

\* np.hstack([line, new_line]): both boundary points kept
HstackConcat(line, new_line) == line \o new_line

\* np.hstack([line[:-1], 0.5 * (line[-1] + new_line[0]), new_line[1:]])
Hstack(line, new_line) ==
    SubSeq(line, 1, Len(line) - 1)
        \o <<Mid(Last(line), First(new_line))>>
        \o SubSeq(new_line, 2, Len(new_line))

(* ------------------------------- state -------------------------------- *)

VARIABLES
    op,             \* the entry point running: "linemerge", "linesort" or,
                    \* for a LineIndex used directly, "index"
    lines,          \* the collection passed in
    tolerance,      \* linemerge's tolerance
    no_flip,        \* the no_flip flag
    index_lines,    \* LineIndex.lines
    available,      \* LineIndex.available
    index_reverse,  \* LineIndex.reverse
    line,           \* linemerge's chain / linesort's popped line
    new_lines,      \* the collection being built
    idx,            \* the index a query returned (None: nothing)
    reverse,        \* the flag a query returned
    pc,             \* the position in the code
    q_p,            \* the point of the query being answered
    q_max_dist,     \* its max_dist (None for find_nearest)
    q_ret,          \* the position the query returns to
    index_src,      \* for each entry of LineIndex.lines, its position in the
                    \* collection passed in (history)
    line_src,       \* the entries spliced into the chain, each with whether
                    \* it went in reversed (history)
    new_src,        \* line_src of each polyline of new_lines (history)
    merges,         \* splices performed (history)
    rebuilds,       \* calls of _reindex (history)
    exact           \* every midpoint so far was a point of the grid

vars == <<op, lines, tolerance, no_flip, index_lines, available, index_reverse,
          line, new_lines, idx, reverse, pc, q_p, q_max_dist, q_ret,
          index_src, line_src, new_src, merges, rebuilds, exact>>

call_vars == <<op, lines, tolerance, no_flip>>

index_vars == <<index_lines, available, index_reverse, index_src, rebuilds>>

(* ------------------------------ LineIndex ----------------------------- *)

\* the data of self.index: each line's first point
Starts(ls) == [i \in 1..Len(ls) |-> First(ls[i])]

\* the data of self.rindex: each line's last point
Ends(ls) == [i \in 1..Len(ls) |-> Last(ls[i])]

\* __len__: np.count_nonzero(self.available)
IndexLen(avail) == Cardinality({i \in 1..Len(avail) : avail[i]})

\* np.argmax(self.available), when some entry is available
FirstAvailable(avail) ==
    CHOOSE i \in 1..Len(avail) : avail[i] /\ \A j \in 1..(i - 1) : ~avail[j]

\* [x for i, x in enumerate(s) if not keep[i]]
RECURSIVE FilterDropped(_, _)
FilterDropped(s, keep) ==
    IF s = <<>> THEN <<>>
    ELSE (IF Head(keep) THEN <<>> ELSE <<Head(s)>>)
             \o FilterDropped(Tail(s), Tail(keep))

\* [x for i, x in enumerate(s) if keep[i]]
RECURSIVE Filter(_, _)
Filter(s, keep) ==
    IF s = <<>> THEN <<>>
    ELSE (IF Head(keep) THEN <<Head(s)>> ELSE <<>>) \o Filter(Tail(s), Tail(keep))

\* The points a query of the tree is let to return: those strictly nearer
\* than distance_upper_bound.
InRange(pts, p, max_dist) ==
    {i \in 1..Len(pts) : Dist2(pts[i], p) < max_dist * max_dist}

\* KDTree.query(p, k, ...) over the points `cand` of pts: the k nearest in
\* increasing distance, the slots left over holding an infinite distance.
\* Which of several points at the k-th distance are returned, and the order
\* of points at one distance, are the tree's choice: `must` holds the points
\* every answer returns, `may` those at the k-th distance, of which an
\* answer returns `slots`; `full` says that no returned distance is
\* infinite.
Query(pts, p, k, cand) ==
    LET d == [i \in cand |-> Dist2(pts[i], p)]
        full == Cardinality(cand) >= k
        dk == CHOOSE v \in {d[i] : i \in cand} :
                  /\ Cardinality({i \in cand : d[i] < v}) < k
                  /\ Cardinality({i \in cand : d[i] <= v}) >= k
        must == IF full THEN {i \in cand : d[i] < dk} ELSE cand
    IN  [d |-> d, full |-> full, must |-> must,
         may |-> IF full THEN {i \in cand : d[i] = dk} ELSE {},
         slots |-> IF full THEN k - Cardinality(must) ELSE 0]

\* FirstHits without the test of self.available
FirstHitsAnyEntry(q, avail) ==
    {i \in q.must \cup q.may : \A j \in q.must \cup q.may : q.d[i] <= q.d[j]}

\* The entries that can be the first available one of an answer.
FirstHits(q, avail) ==
    {i \in q.must \cup q.may :
        /\ avail[i]
        /\ \A j \in q.must \cup q.may : avail[j] => q.d[i] <= q.d[j]}

\* Whether some answer returns no available entry.
CanMissAll(q, avail) ==
    /\ \A i \in q.must : ~avail[i]
    /\ Cardinality({i \in q.may : ~avail[i]}) >= q.slots

\* _find_nearest_within_in_index without the reindex of lines 117-118:
\* nothing is returned when no sampled entry is available
FindNearestWithinNoReindex(pts, avail, p, max_dist) ==
    LET q == Query(pts, p, K_WITHIN, InRange(pts, p, max_dist))
    IN  {[reindex |-> FALSE, idx |-> i, dist |-> q.d[i]] :
             i \in FirstHits(q, avail)}
        \cup (IF CanMissAll(q, avail)
              THEN {[reindex |-> FALSE, idx |-> None, dist |-> 0]} ELSE {})

\* _find_nearest_within_in_index: the (reindex, idx, dist) it can return
FindNearestWithinInIndex(pts, avail, p, max_dist) ==
    LET q == Query(pts, p, K_WITHIN, InRange(pts, p, max_dist))
    IN  (IF q.full /\ CanMissAll(q, avail)
         THEN {[reindex |-> TRUE, idx |-> None, dist |-> 0]} ELSE {})
        \cup {[reindex |-> FALSE, idx |-> i, dist |-> q.d[i]] :
                 i \in FirstHits(q, avail)}
        \cup (IF ~q.full /\ CanMissAll(q, avail)
              THEN {[reindex |-> FALSE, idx |-> None, dist |-> 0]} ELSE {})

\* _find_nearest_in_index giving up on any sample, one with available entries
\* too
FindNearestInIndexMayMiss(pts, avail, p) ==
    LET q == Query(pts, p, K_NEAREST, 1..Len(pts))
    IN  {[idx |-> i, dist |-> q.d[i]] : i \in FirstHits(q, avail)}
        \cup {[idx |-> None, dist |-> 0]}

\* _find_nearest_in_index: the (idx, dist) it can return
FindNearestInIndex(pts, avail, p) ==
    LET q == Query(pts, p, K_NEAREST, 1..Len(pts))
    IN  {[idx |-> i, dist |-> q.d[i]] : i \in FirstHits(q, avail)}
        \cup (IF CanMissAll(q, avail)
              THEN {[idx |-> None, dist |-> 0]} ELSE {})

\* find_nearest_within, lines 88-100, with rdist <= dist at line 97
WithinResultEndOnTie(rev, r, rr) ==
    IF rev
    THEN IF r.idx = None /\ rr.idx = None THEN <<None, FALSE>>
         ELSE IF r.idx # None /\ rr.idx = None THEN <<r.idx, FALSE>>
         ELSE IF r.idx = None /\ rr.idx # None THEN <<rr.idx, TRUE>>
         ELSE IF rr.dist <= r.dist THEN <<rr.idx, TRUE>>
         ELSE <<r.idx, FALSE>>
    ELSE <<r.idx, FALSE>>

\* find_nearest_within, lines 88-100: the (idx, reverse) returned for the
\* answers r of self.index and rr of self.rindex
WithinResult(rev, r, rr) ==
    IF rev
    THEN IF r.idx = None /\ rr.idx = None THEN <<None, FALSE>>
         ELSE IF r.idx # None /\ rr.idx = None THEN <<r.idx, FALSE>>
         ELSE IF r.idx = None /\ rr.idx # None THEN <<rr.idx, TRUE>>
         ELSE IF rr.dist < r.dist THEN <<rr.idx, TRUE>>
         ELSE <<r.idx, FALSE>>
    ELSE <<r.idx, FALSE>>

\* find_nearest, lines 141-147, without the comparison with rdist
NearestResultStartOnly(rev, r, rr) == <<r.idx, FALSE>>

\* find_nearest, lines 141-147
NearestResult(rev, r, rr) ==
    IF rev
    THEN IF rr.dist < r.dist THEN <<rr.idx, TRUE>> ELSE <<r.idx, FALSE>>
    ELSE <<r.idx, FALSE>>

\* ridx = None, rdist = 0 (lines 70-71)
NoAnswer == [reindex |-> FALSE, idx |-> None, dist |-> 0]

(* ------------------------------- inputs ------------------------------- *)

Palette ==
    { <<Pt(0, 0), Pt(1, 0)>>,
      <<Pt(1, 0), Pt(2, 0)>>,
      <<Pt(2, 0), Pt(1, 0)>>,
      <<Pt(1, 0)>>,
      <<Pt(0, 0), Pt(0, 1), Pt(0, 0)>>,
      <<Pt(4, 0), Pt(5, 0)>> }

\* every collection of at most MaxLines polylines of the palette
SmallInputs == UNION {[1..n -> Palette] : n \in 0..MaxLines}

Tolerances == {Scale, Scale + Scale \div 2}

\* k + e polylines from (x, 0) to (x, 1): k of them one step apart, the e
\* others one step apart beyond a gap of `gap` steps
Ladder(k, e, gap) ==
    [i \in 1..(k + e) |->
        LET x == IF i <= k THEN i - 1 ELSE i - 1 + gap
        IN  <<Pt(x, 0), Pt(x, 1)>>]

\* a tolerance that every point of a ladder is within of every other
LadderTolerance == (3 * K_NEAREST + MaxExtra) * Scale

\* the merge scenario, in units of 0.01
MergeScenario == << <<Pt(0, 0), Pt(100, 0)>>, <<Pt(102, 0), Pt(200, 0)>> >>

\* the sort scenario
SortScenario ==
    << <<Pt(0, 0), Pt(0, 1)>>, <<Pt(5, 5), Pt(5, 6)>>, <<Pt(0, 2), Pt(0, 3)>> >>

\* m polylines from (x, 0), x = 0 .. m-1, to the origin, then one from
\* (m, 0) and one from (-m, 0) to the origin: the last two start at one
\* distance from where the others end
Fan(m) ==
    [i \in 1..(m + 2) |->
        <<Pt(IF i <= m + 1 THEN i - 1 ELSE 0 - m, 0), Pt(0, 0)>>]

\* the arguments of the queries of a LineIndex used directly
QueryPoints == {Pt(0, 0), Pt(1, 0), Pt(2, 0)}

QueryDists == {Scale, LadderTolerance}

\* the calls: the entry point, the collection, the tolerance and the values
\* of no_flip
Cases ==
    {[op |-> "linemerge", lines |-> ls, tolerance |-> t, no_flip |-> BOOLEAN] :
         ls \in SmallInputs, t \in Tolerances}
    \cup {[op |-> "linemerge", lines |-> MergeScenario, tolerance |-> 5 * Scale,
           no_flip |-> BOOLEAN]}
    \cup {[op |-> "linemerge", lines |-> Ladder(K_WITHIN, e, K_WITHIN),
           tolerance |-> LadderTolerance, no_flip |-> BOOLEAN] :
             e \in 0..MaxExtra}
    \cup {[op |-> "linemerge", lines |-> Fan(K_WITHIN - 1),
           tolerance |-> LadderTolerance, no_flip |-> {TRUE}]}
    \cup {[op |-> "linesort", lines |-> ls, tolerance |-> None,
           no_flip |-> BOOLEAN] : ls \in SmallInputs \cup {SortScenario}}
    \cup {[op |-> "linesort", lines |-> Ladder(K_NEAREST + 1, e, K_NEAREST),
           tolerance |-> None, no_flip |-> BOOLEAN] : e \in 0..MaxExtra}
    \cup {[op |-> "linesort", lines |-> Fan(K_NEAREST), tolerance |-> None,
           no_flip |-> {TRUE}]}
    \cup {[op |-> "index", lines |-> ls, tolerance |-> None,
           no_flip |-> BOOLEAN] : ls \in SmallInputs \ {<<>>}}

(* -------------------------------- Init -------------------------------- *)

AllTrue(n) == [i \in 1..n |-> TRUE]

Ids(n) == [i \in 1..n |-> i]

\* On entry of linemerge or linesort no index exists yet; a LineIndex used
\* directly has just been constructed over `lines` (__init__, _make_index).
Init ==
    \E c \in Cases : \E f \in c.no_flip :
        /\ op = c.op
        /\ lines = c.lines
        /\ tolerance = c.tolerance
        /\ no_flip = f
        /\ index_lines = IF c.op = "index" THEN c.lines ELSE <<>>
        /\ available = IF c.op = "index" THEN AllTrue(Len(c.lines)) ELSE <<>>
        /\ index_src = IF c.op = "index" THEN Ids(Len(c.lines)) ELSE <<>>
        /\ index_reverse = ~f
        /\ line = <<>>
        /\ new_lines = <<>>
        /\ idx = None
        /\ reverse = FALSE
        /\ pc = IF c.op = "index" THEN "idle" ELSE c.op
        /\ q_p = Pt(0, 0)
        /\ q_max_dist = None
        /\ q_ret = "idle"
        /\ line_src = <<>>
        /\ new_src = <<>>
        /\ merges = 0
        /\ rebuilds = 0
        /\ exact = TRUE

(* ------------------------- LineIndex, the calls ----------------------- *)

\* _reindex keeping every entry and its availability
ReindexKeepAll ==
    /\ rebuilds' = rebuilds + 1
    /\ UNCHANGED <<index_lines, index_src, available, pc, index_reverse, idx,
                   reverse>>

\* _reindex storing the entries kept in reverse order
ReindexBackwards ==
    LET ls == Filter(index_lines, available)
    IN  /\ index_lines' = Flip(ls)
        /\ index_src' = Flip(Filter(index_src, available))
        /\ available' = AllTrue(Len(ls))
        /\ rebuilds' = rebuilds + 1
        /\ pc' = IF ls = <<>> THEN "failed" ELSE pc
        /\ UNCHANGED <<index_reverse, idx, reverse>>

\* _reindex, then _make_index: the entries not available are dropped and the
\* rest renumbered, all available.  KDTree(np.array([])) raises when no line
\* is left (the array built from no point has one dimension, not two).
Reindex ==
    LET ls == Filter(index_lines, available)
    IN  /\ index_lines' = ls
        /\ index_src' = Filter(index_src, available)
        /\ available' = AllTrue(Len(ls))
        /\ rebuilds' = rebuilds + 1
        /\ pc' = IF ls = <<>> THEN "failed" ELSE pc
        /\ UNCHANGED <<index_reverse, idx, reverse>>

\* a query that calls _reindex once more before it returns res
ReturnAfterReindex(res) ==
    /\ idx' = res[1]
    /\ reverse' = res[2]
    /\ pc' = q_ret
    /\ index_lines' = Filter(index_lines, available)
    /\ index_src' = Filter(index_src, available)
    /\ available' = AllTrue(IndexLen(available))
    /\ rebuilds' = rebuilds + 1
    /\ UNCHANGED index_reverse

\* a query returns res = (idx, reverse) to its caller
Return(res) ==
    /\ idx' = res[1]
    /\ reverse' = res[2]
    /\ pc' = q_ret
    /\ UNCHANGED index_vars

\* find_nearest_within, one turn of its loop (lines 73-86) and, when the
\* loop is left, lines 88-100
FindNearestWithin ==
    /\ pc = "find_nearest_within"
    /\ \E r \in FindNearestWithinInIndex(Starts(index_lines), available,
                                         q_p, q_max_dist) :
          IF r.reindex THEN Reindex
          ELSE IF index_reverse
          THEN \E rr \in FindNearestWithinInIndex(Ends(index_lines), available,
                                                  q_p, q_max_dist) :
                  IF rr.reindex THEN Reindex
                  ELSE Return(WithinResult(TRUE, r, rr))
          ELSE Return(WithinResult(FALSE, r, NoAnswer))
    /\ UNCHANGED <<call_vars, line, new_lines, q_p, q_max_dist, q_ret,
                   line_src, new_src, merges, exact>>

\* find_nearest, one turn of its loop (lines 130-139) and, when the loop is
\* left, lines 141-147
FindNearest ==
    /\ pc = "find_nearest"
    /\ \E r \in FindNearestInIndex(Starts(index_lines), available, q_p) :
          IF index_reverse
          THEN \E rr \in FindNearestInIndex(Ends(index_lines), available, q_p) :
                  IF rr.idx # None /\ r.idx # None
                  THEN Return(NearestResult(TRUE, r, rr))
                  ELSE Reindex
          ELSE IF r.idx # None
          THEN Return(NearestResult(FALSE, r, NoAnswer))
          ELSE Reindex
    /\ UNCHANGED <<call_vars, line, new_lines, q_p, q_max_dist, q_ret,
                   line_src, new_src, merges, exact>>

\* the caller's arguments of a query
Call(name, p, max_dist, ret) ==
    /\ pc' = name
    /\ q_p' = p
    /\ q_max_dist' = max_dist
    /\ q_ret' = ret

(* ------------------------------ linemerge ----------------------------- *)

\* lines 216-220 with the test len(lines) < 1
MergeEnterFromOne ==
    /\ pc = "linemerge"
    /\ IF Len(lines) < 1
       THEN /\ new_lines' = lines
            /\ pc' = "done"
            /\ UNCHANGED <<index_lines, available, index_src>>
       ELSE /\ index_lines' = lines
            /\ available' = AllTrue(Len(lines))
            /\ index_src' = Ids(Len(lines))
            /\ new_lines' = <<>>
            /\ pc' = "merge_loop"
    /\ UNCHANGED <<call_vars, index_reverse, line, idx, reverse, q_p,
                   q_max_dist, q_ret, line_src, new_src, merges, rebuilds, exact>>

\* lines 216-220
MergeEnter ==
    /\ pc = "linemerge"
    /\ IF Len(lines) < 2
       THEN /\ new_lines' = lines
            /\ pc' = "done"
            /\ UNCHANGED <<index_lines, available, index_src>>
       ELSE /\ index_lines' = lines
            /\ available' = AllTrue(Len(lines))
            /\ index_src' = Ids(Len(lines))
            /\ new_lines' = <<>>
            /\ pc' = "merge_loop"
    /\ UNCHANGED <<call_vars, index_reverse, line, idx, reverse, q_p,
                   q_max_dist, q_ret, line_src, new_src, merges, rebuilds, exact>>

\* lines 222-223 with a pop_front that leaves the entry available
MergeLoopKeepSeed ==
    /\ pc = "merge_loop"
    /\ IF IndexLen(available) = 0
       THEN /\ pc' = "done"
            /\ UNCHANGED <<line, line_src>>
       ELSE LET i == FirstAvailable(available)
            IN  /\ line' = index_lines[i]
                /\ line_src' = <<[src |-> index_src[i], flipped |-> FALSE]>>
                /\ pc' = "grow"
    /\ UNCHANGED <<call_vars, index_vars, available, new_lines, idx, reverse,
                   q_p, q_max_dist, q_ret, new_src, merges, exact>>

\* lines 222-223: while len(index) > 0: line = index.pop_front()
MergeLoop ==
    /\ pc = "merge_loop"
    /\ IF IndexLen(available) = 0
       THEN /\ pc' = "done"
            /\ UNCHANGED <<available, line, line_src>>
       ELSE LET i == FirstAvailable(available)
            IN  /\ available' = [available EXCEPT ![i] = FALSE]
                /\ line' = index_lines[i]
                /\ line_src' = <<[src |-> index_src[i], flipped |-> FALSE]>>
                /\ pc' = "grow"
    /\ UNCHANGED <<call_vars, index_lines, index_reverse, index_src, rebuilds,
                   new_lines, idx, reverse, q_p, q_max_dist, q_ret, new_src,
                   merges, exact>>

\* line 227 with the query made at line[0]
MergeQueryEndAtStart ==
    /\ pc = "grow"
    /\ Call("find_nearest_within", First(line), tolerance, "after_end")
    /\ UNCHANGED <<call_vars, index_vars, line, new_lines, idx, reverse,
                   line_src, new_src, merges, exact>>

\* line 227: index.find_nearest_within(line[-1], tolerance)
MergeQueryEnd ==
    /\ pc = "grow"
    /\ Call("find_nearest_within", Last(line), tolerance, "after_end")
    /\ UNCHANGED <<call_vars, index_vars, line, new_lines, idx, reverse,
                   line_src, new_src, merges, exact>>

\* lines 228-229 without "and not no_flip"
MergeQueryStartAlways ==
    /\ pc = "after_end"
    /\ IF idx = None
       THEN /\ pc' = "find_nearest_within"
            /\ q_p' = line[1]
            /\ q_max_dist' = tolerance
            /\ q_ret' = "after_start"
       ELSE /\ pc' = "splice"
            /\ UNCHANGED <<q_p, q_max_dist, q_ret>>
    /\ UNCHANGED <<call_vars, index_vars, line, new_lines, idx, reverse,
                   line_src, new_src, merges, exact>>

\* lines 228-229: if idx is None and not no_flip:
\*                    index.find_nearest_within(line[0], tolerance)
MergeQueryStart ==
    /\ pc = "after_end"
    /\ IF idx = None /\ ~no_flip
       THEN Call("find_nearest_within", First(line), tolerance, "after_start")
       ELSE /\ pc' = "splice"
            /\ UNCHANGED <<q_p, q_max_dist, q_ret>>
    /\ UNCHANGED <<call_vars, index_vars, line, new_lines, idx, reverse,
                   line_src, new_src, merges, exact>>

\* the chain reversed: its entries in reverse order, each turned over
FlipSrc(src) ==
    [i \in 1..Len(src) |->
        [src |-> src[Len(src) + 1 - i].src,
         flipped |-> ~src[Len(src) + 1 - i].flipped]]

\* line 230: line = np.flip(line)
MergeFlip ==
    /\ pc = "after_start"
    /\ line' = Flip(line)
    /\ line_src' = FlipSrc(line_src)
    /\ pc' = "splice"
    /\ UNCHANGED <<call_vars, index_vars, new_lines, idx, reverse, q_p,
                   q_max_dist, q_ret, new_src, merges, exact>>

\* lines 231-238: the loop is left and the chain appended when idx is None;
\* else the entry is popped, flipped if reverse, and spliced onto the chain.
\* pop returns None for an entry that is not available, and the splice of
\* None raises.
MergeSplice ==
    /\ pc = "splice"
    /\ IF idx = None
       THEN /\ new_lines' = Append(new_lines, line)
            /\ new_src' = Append(new_src, line_src)
            /\ pc' = "merge_loop"
            /\ UNCHANGED <<available, line, line_src, merges, exact>>
       ELSE IF ~available[idx]
       THEN /\ pc' = "failed"
            /\ UNCHANGED <<available, line, line_src, merges, exact,
                           new_lines, new_src>>
       ELSE LET new_line == IF reverse THEN Flip(index_lines[idx])
                            ELSE index_lines[idx]
            IN  /\ available' = [available EXCEPT ![idx] = FALSE]
                /\ line' = Hstack(line, new_line)
                /\ line_src' = Append(line_src, [src |-> index_src[idx],
                                                 flipped |-> reverse])
                /\ merges' = merges + 1
                /\ exact' = (exact /\ MidExact(Last(line), First(new_line)))
                /\ pc' = "grow"
                /\ UNCHANGED <<new_lines, new_src>>
    /\ UNCHANGED <<call_vars, index_lines, index_reverse, index_src, rebuilds,
                   idx, reverse, q_p, q_max_dist, q_ret>>

(* ------------------------------ linesort ------------------------------ *)

\* lines 260-264
SortEnter ==
    /\ pc = "linesort"
    /\ IF Len(lines) < 2
       THEN /\ new_lines' = lines
            /\ pc' = "done"
            /\ UNCHANGED <<index_lines, available, index_src, new_src>>
       ELSE /\ index_lines' = Tail(lines)
            /\ available' = AllTrue(Len(lines) - 1)
            /\ index_src' = [i \in 1..(Len(lines) - 1) |-> i + 1]
            /\ new_lines' = <<lines[1]>>
            /\ new_src' = << <<[src |-> 1, flipped |-> FALSE]>> >>
            /\ pc' = "sort_loop"
    /\ UNCHANGED <<call_vars, index_reverse, line, idx, reverse, q_p,
                   q_max_dist, q_ret, line_src, merges, rebuilds, exact>>

\* lines 266-267: while len(index) > 0:
\*                    index.find_nearest(new_lines[-1][-1])
SortLoop ==
    /\ pc = "sort_loop"
    /\ IF IndexLen(available) = 0
       THEN /\ pc' = "done"
            /\ UNCHANGED <<q_p, q_max_dist, q_ret>>
       ELSE Call("find_nearest", Last(Last(new_lines)), None, "after_nearest")
    /\ UNCHANGED <<call_vars, index_vars, line, new_lines, idx, reverse,
                   line_src, new_src, merges, exact>>

\* lines 268-271: the entry is popped, flipped if reverse, and appended
SortAppend ==
    /\ pc = "after_nearest"
    /\ IF ~available[idx]
       THEN /\ pc' = "failed"
            /\ UNCHANGED <<available, line, new_lines, new_src>>
       ELSE /\ available' = [available EXCEPT ![idx] = FALSE]
            /\ line' = IF reverse THEN Flip(index_lines[idx])
                       ELSE index_lines[idx]
            /\ new_lines' = Append(new_lines, line')
            /\ new_src' = Append(new_src, <<[src |-> index_src[idx],
                                            flipped |-> reverse]>>)
            /\ pc' = "sort_loop"
    /\ UNCHANGED <<call_vars, index_lines, index_reverse, index_src, rebuilds,
                   idx, reverse, q_p, q_max_dist, q_ret, line_src, merges, exact>>

(* ----------------------- a LineIndex used directly -------------------- *)

\* pop_front (lines 50-55)
IndexPopFront ==
    /\ pc = "idle"
    /\ IndexLen(available) > 0
    /\ available' = [available EXCEPT ![FirstAvailable(available)] = FALSE]
    /\ UNCHANGED <<call_vars, index_lines, index_reverse, index_src, rebuilds,
                   line, new_lines, idx, reverse, pc, q_p, q_max_dist, q_ret,
                   line_src, new_src, merges, exact>>

\* pop(i) (lines 57-61), for an index i no query returned
IndexPop ==
    /\ pc = "idle"
    /\ \E i \in 1..Len(index_lines) :
          /\ i <= MaxEdge \/ i > Len(index_lines) - MaxEdge
          /\ available[i]
          /\ available' = [available EXCEPT ![i] = FALSE]
    /\ UNCHANGED <<call_vars, index_lines, index_reverse, index_src, rebuilds,
                   line, new_lines, idx, reverse, pc, q_p, q_max_dist, q_ret,
                   line_src, new_src, merges, exact>>

\* find_nearest_within(p, max_dist) is called
IndexCallWithin ==
    /\ pc = "idle"
    /\ \E p \in QueryPoints, max_dist \in QueryDists :
          Call("find_nearest_within", p, max_dist, "returned")
    /\ UNCHANGED <<call_vars, index_vars, line, new_lines, idx, reverse,
                   line_src, new_src, merges, exact>>

\* find_nearest(p) is called, on an index that is not empty
IndexCallNearest ==
    /\ pc = "idle"
    /\ IndexLen(available) > 0
    /\ \E p \in QueryPoints : Call("find_nearest", p, None, "returned")
    /\ UNCHANGED <<call_vars, index_vars, line, new_lines, idx, reverse,
                   line_src, new_src, merges, exact>>

\* the caller pops the entry the query returned (pop, lines 57-61), or
\* leaves it; the query's arguments and results go out of scope
IndexPopFound ==
    /\ pc = "returned"
    /\ \/ /\ idx # None
          /\ available[idx]
          /\ available' = [available EXCEPT ![idx] = FALSE]
       \/ UNCHANGED available
    /\ pc' = "idle"
    /\ idx' = None
    /\ reverse' = FALSE
    /\ q_p' = Pt(0, 0)
    /\ q_max_dist' = None
    /\ UNCHANGED <<call_vars, index_lines, index_reverse, index_src, rebuilds,
                   line, new_lines, q_ret, line_src, new_src, merges, exact>>

(* -------------------------------- Next -------------------------------- *)

Next ==
    \/ MergeEnter
    \/ MergeLoop
    \/ MergeQueryEnd
    \/ MergeQueryStart
    \/ MergeFlip
    \/ MergeSplice
    \/ SortEnter
    \/ SortLoop
    \/ SortAppend
    \/ FindNearestWithin
    \/ FindNearest
    \/ IndexPopFront
    \/ IndexPop
    \/ IndexCallWithin
    \/ IndexCallNearest
    \/ IndexPopFound

Spec == Init /\ [][Next]_vars

\* linemerge and linesort run to their end: no step of theirs waits on
\* anything
RunNext ==
    \/ MergeEnter
    \/ MergeLoop
    \/ MergeQueryEnd
    \/ MergeQueryStart
    \/ MergeFlip
    \/ MergeSplice
    \/ SortEnter
    \/ SortLoop
    \/ SortAppend
    \/ FindNearestWithin
    \/ FindNearest

RunInit == Init /\ op # "index"

FairSpec == RunInit /\ [][RunNext]_vars /\ WF_vars(RunNext)

(* ------------------------------ properties ---------------------------- *)

\* The model's arithmetic is the program's: every midpoint computed was a
\* point of the grid; and the index keeps one flag per line.
ModelOK ==
    /\ exact
    /\ Len(available) = Len(index_lines)
    /\ Len(index_src) = Len(index_lines)

Running == op \in {"linemerge", "linesort"}

\* a query has just returned idx and reverse to its caller
AfterQuery == pc \in {"returned", "after_end", "after_start", "after_nearest"}

\* find_nearest_within has just returned
AfterWithin == AfterQuery /\ q_max_dist # None

\* the point of entry i that a match with flag rev is a match of
Endpoint(i, rev) ==
    IF rev THEN Last(index_lines[i]) ELSE First(index_lines[i])

\* The reference: every (entry, flag) such that the entry is available and
\* its start point (flag FALSE) or, when the index tracks ends, its end point
\* (flag TRUE) is nearer to p than max_dist, found by scanning all entries.
Matches(p, max_dist) ==
    {m \in (1..Len(index_lines)) \X (IF index_reverse THEN BOOLEAN ELSE {FALSE}) :
        /\ available[m[1]]
        /\ Dist2(Endpoint(m[1], m[2]), p) < max_dist * max_dist}

\* the same, with the points at exactly max_dist counted in
MatchesUpTo(p, max_dist) ==
    {m \in (1..Len(index_lines)) \X (IF index_reverse THEN BOOLEAN ELSE {FALSE}) :
        /\ available[m[1]]
        /\ Dist2(Endpoint(m[1], m[2]), p) <= max_dist * max_dist}

\* the number of points of a collection
RECURSIVE TotalPoints(_)
TotalPoints(ls) ==
    IF ls = <<>> THEN 0 ELSE Len(Head(ls)) + TotalPoints(Tail(ls))

Halted == pc \in {"done", "failed"}

\* C1: when a query (find_nearest_within or find_nearest) returns an id,
\* that id is a position of the index as numbered at the return, and the
\* entry there is marked available: never the id of a removed entry,
\* whatever removals and rebuilds came before.
C1_QueryReturnsAvailable ==
    AfterQuery /\ idx # None =>
        idx \in 1..Len(index_lines) /\ available[idx]

\* C1 witness: a query returns an id after a rebuild, while another entry of
\* the index is removed.
C1_Witness ==
    /\ AfterQuery
    /\ idx # None
    /\ rebuilds > 0
    /\ \E i \in 1..Len(available) : ~available[i]

C3_NoRunFails == Running => pc # "failed"

\* how far the code at pc is from the end of the turn of the loop it is in
Stage ==
    CASE pc = "grow" -> 7
      [] pc = "find_nearest_within" /\ q_ret = "after_end" -> 6
      [] pc = "after_end" -> 5
      [] pc = "find_nearest_within" /\ q_ret = "after_start" -> 4
      [] pc = "after_start" -> 3
      [] pc = "splice" -> 2
      [] pc = "merge_loop" -> 1
      [] pc = "sort_loop" -> 3
      [] pc = "find_nearest" -> 2
      [] pc = "after_nearest" -> 1
      [] OTHER -> 0

\* what is left of a run: above all the entries available and the lines
\* the index holds, then the stage
Rank ==
    IF pc \in {"linemerge", "linesort"}
    THEN 8 * (2 * Len(lines) + 1)
    ELSE 8 * (IndexLen(available) + Len(index_lines)) + Stage

\* a run that is at pc can take its next step: every position but those
\* inside the two queries has a step whatever the state, and a query has one
\* when the tree's search has an answer
CanStep ==
    \/ pc \in {"linemerge", "merge_loop", "grow", "after_end", "after_start",
               "splice", "linesort", "sort_loop", "after_nearest"}
    \/ /\ pc = "find_nearest_within"
       /\ FindNearestWithinInIndex(Starts(index_lines), available,
                                   q_p, q_max_dist) # {}
       /\ index_reverse =>
              FindNearestWithinInIndex(Ends(index_lines), available,
                                       q_p, q_max_dist) # {}
    \/ /\ pc = "find_nearest"
       /\ FindNearestInIndex(Starts(index_lines), available, q_p) # {}
       /\ index_reverse =>
              FindNearestInIndex(Ends(index_lines), available, q_p) # {}

\* C4: every step of linemerge and of linesort, a rebuild among them, brings
\* the run strictly nearer to its end, a run that has not halted can take a
\* step, the index is rebuilt at most once per polyline passed in, and a run
\* halts with no entry available: no loop repeats forever.
C4_RunsHalt ==
    /\ [][Rank' < Rank]_vars
    /\ [](Halted \/ CanStep)
    /\ [](rebuilds <= Len(lines))
    /\ [](Halted => IndexLen(available) = 0)

\* C4 witness: a run ends after it rebuilt the index.
C4_Witness == Running /\ pc = "done" /\ rebuilds > 0

\* C5: when linemerge of two polylines or more returns, the points of its
\* output number the points of its input less the splices performed.
C5_MergeConservation ==
    op = "linemerge" /\ pc = "done" /\ Len(lines) >= 2 =>
        TotalPoints(new_lines) = TotalPoints(lines) - merges

\* C5 witness: linemerge returns a spliced chain and another polyline.
C5_Witness ==
    /\ op = "linemerge"
    /\ pc = "done"
    /\ merges >= 1
    /\ Len(new_lines) >= 2

\* whether a and b are within tolerance of each other, the boundary
\* counted in
Within(a, b) == Dist2(a, b) <= tolerance * tolerance

\* whether a is nearer to b than tolerance, the boundary left out
Nearer(a, b) == Dist2(a, b) < tolerance * tolerance

EndPoints(l) == {First(l), Last(l)}

\* C6: linemerge of [(0,0),(1,0)] and [(1.02,0),(2,0)] with tolerance 0.05
\* returns the one polyline (0,0), (1.01,0), (2,0), whether or not reversal
\* is allowed (coordinates in units of 0.01).
C6_MergeScenario ==
    /\ op = "linemerge"
    /\ lines = MergeScenario
    /\ tolerance = 5 * Scale
    /\ pc = "done"
    => new_lines = << <<Pt(0, 0), Pt(101, 0), Pt(200, 0)>> >>

\* What the code returns in the scenario of C6: the polyline of C6 when
\* no_flip is set, the same polyline end to start when it is not.
MergeScenarioAsRun ==
    /\ op = "linemerge"
    /\ lines = MergeScenario
    /\ tolerance = 5 * Scale
    /\ pc = "done"
    => new_lines = IF no_flip
                   THEN << <<Pt(0, 0), Pt(101, 0), Pt(200, 0)>> >>
                   ELSE << <<Pt(200, 0), Pt(101, 0), Pt(0, 0)>> >>

\* no end point of another polyline passed in is within tolerance of an end
\* point of lines[i]
Unjoinable(i) ==
    \A j \in (1..Len(lines)) \ {i} :
        \A a \in EndPoints(lines[i]), b \in EndPoints(lines[j]) : ~Within(a, b)

\* C7: a polyline that linemerge cannot join to anything is in the output
\* with the same points in the same order, whether or not reversal is
\* allowed.
C7_UnjoinablePassesThrough ==
    op = "linemerge" /\ pc = "done" =>
        \A i \in 1..Len(lines) :
            Unjoinable(i) => \E k \in 1..Len(new_lines) : new_lines[k] = lines[i]

\* What the code does for the polylines of C7: with no_flip set they pass
\* through; without it they come out in either direction.
UnjoinableAsRun ==
    op = "linemerge" /\ pc = "done" =>
        \A i \in 1..Len(lines) :
            Unjoinable(i) =>
                \E k \in 1..Len(new_lines) :
                    \/ new_lines[k] = lines[i]
                    \/ ~no_flip /\ new_lines[k] = Flip(lines[i])

\* C8: in the output of linemerge no polyline ends nearer than tolerance to
\* where another one starts and, when reversal is allowed, no two polylines
\* have end points nearer than tolerance to each other.
C8_NothingLeftToJoin ==
    op = "linemerge" /\ pc = "done" =>
        \A a, b \in 1..Len(new_lines) :
            a # b =>
                /\ ~Nearer(Last(new_lines[a]), First(new_lines[b]))
                /\ ~no_flip =>
                       \A x \in EndPoints(new_lines[a]),
                          y \in EndPoints(new_lines[b]) : ~Nearer(x, y)

\* What the code leaves of C8 when no_flip is set: no polyline of the output
\* ends nearer than tolerance to where a later one starts.
NothingLeftToJoinLater ==
    op = "linemerge" /\ pc = "done" /\ no_flip =>
        \A a, b \in 1..Len(new_lines) :
            a < b => ~Nearer(Last(new_lines[a]), First(new_lines[b]))

\* the polylines ls spliced one after the other
RECURSIVE Chain(_)
Chain(ls) ==
    IF Len(ls) = 1 THEN ls[1]
    ELSE Hstack(Chain(SubSeq(ls, 1, Len(ls) - 1)), ls[Len(ls)])

\* C9: with no_flip set, every polyline linesort returns is a polyline passed
\* in, point for point, and every polyline linemerge returns is the splice
\* of polylines passed in, each with its points in the order passed in.
C9_NoFlipKeepsDirection ==
    Running /\ pc = "done" /\ no_flip /\ Len(lines) >= 2 =>
        \A k \in 1..Len(new_lines) :
            /\ \A j \in 1..Len(new_src[k]) : ~new_src[k][j].flipped
            /\ new_lines[k] =
                   Chain([j \in 1..Len(new_src[k]) |-> lines[new_src[k][j].src]])

\* C9 witness: with no_flip set, linemerge returns after a splice, and
\* linesort after it moved a polyline.
C9_Witness ==
    /\ pc = "done"
    /\ no_flip
    /\ \/ op = "linemerge" /\ merges >= 1
       \/ op = "linesort" /\ \E k \in 1..Len(new_src) : new_src[k][1].src # k

\* C10: linesort of two polylines or more returns as many polylines as it
\* was passed, the first one unchanged in first place, and every polyline
\* passed in exactly once, unchanged or, only when reversal is allowed,
\* reversed.
C10_SortPermutes ==
    op = "linesort" /\ pc = "done" /\ Len(lines) >= 2 =>
        /\ Len(new_lines) = Len(lines)
        /\ new_lines[1] = lines[1]
        /\ new_src[1][1].src = 1
        /\ {new_src[k][1].src : k \in 1..Len(new_src)} = 1..Len(lines)
        /\ \A k \in 1..Len(new_lines) :
               \/ new_lines[k] = lines[new_src[k][1].src]
               \/ ~no_flip /\ new_lines[k] = Flip(lines[new_src[k][1].src])

\* C10 witness: linesort returns after a rebuild, a polyline reversed.
C10_Witness ==
    /\ op = "linesort"
    /\ pc = "done"
    /\ rebuilds > 0
    /\ \E k \in 1..Len(new_lines) : new_lines[k] # lines[new_src[k][1].src]

\* every (entry, flag) a query may answer with: the available entries by
\* their start point and, when the index tracks ends, by their end point
Candidates ==
    {m \in (1..Len(index_lines)) \X (IF index_reverse THEN BOOLEAN ELSE {FALSE}) :
        available[m[1]]}

\* C11: the polyline linesort appends next is a nearest neighbour of the
\* cursor, the end point of the polyline appended last: the point it was
\* matched by is at the least distance from the cursor among the start
\* points (and, when reversal is allowed, the end points) of all polylines
\* still available; and the polylines A, B, C of the sort scenario come out
\* in the order A, C, B.
C11_SortIsGreedy ==
    /\ op = "linesort" /\ pc = "after_nearest" =>
           /\ q_p = Last(Last(new_lines))
           /\ <<idx, reverse>> \in Candidates
           /\ \A m \in Candidates :
                  Dist2(Endpoint(idx, reverse), q_p)
                      <= Dist2(Endpoint(m[1], m[2]), q_p)
    /\ op = "linesort" /\ pc = "done" /\ lines = SortScenario =>
           new_lines = <<SortScenario[1], SortScenario[3], SortScenario[2]>>

\* C11 witness: find_nearest returns to linesort from an index of more
\* entries than one search samples, some of them removed, while available
\* entries lie at different distances from the cursor.
C11_Witness ==
    /\ op = "linesort"
    /\ pc = "after_nearest"
    /\ Len(index_lines) > K_NEAREST
    /\ \E i \in 1..Len(available) : ~available[i]
    /\ \E m, n \in Candidates :
           Dist2(Endpoint(m[1], m[2]), q_p) # Dist2(Endpoint(n[1], n[2]), q_p)

\* the square of the distance from where the first polyline passed in ends
\* to where the second starts
Gap == Dist2(Last(lines[1]), First(lines[2]))

\* C12: linemerge of two polylines, the first ending exactly tolerance away
\* from where the second starts, returns one polyline; when no end point of
\* one is within tolerance of an end point of the other, it returns two
\* polylines, the two passed in.
C12_ToleranceBoundary ==
    op = "linemerge" /\ pc = "done" /\ Len(lines) = 2 =>
        /\ Gap = tolerance * tolerance => Len(new_lines) = 1
        /\ Unjoinable(1) =>
               /\ Len(new_lines) = 2
               /\ \A i \in 1..2 : \E k \in 1..2 :
                      new_lines[k] \in {lines[i], Flip(lines[i])}

\* What the code does at the boundary of C12: with no_flip set, two
\* polylines are spliced exactly when the first ends nearer than tolerance
\* to where the second starts, and returned as passed in otherwise.
ToleranceBoundaryAsRun ==
    op = "linemerge" /\ pc = "done" /\ Len(lines) = 2 /\ no_flip =>
        IF Gap < tolerance * tolerance
        THEN new_lines = <<Hstack(lines[1], lines[2])>>
        ELSE new_lines = lines

\* C13: linemerge and linesort of no polyline or of one return the
\* collection passed in, and on the way build no index and make no query.
C13_IdentityOnFewLines ==
    Running /\ Len(lines) < 2 =>
        /\ pc \in {op, "done"}
        /\ index_lines = <<>>
        /\ available = <<>>
        /\ rebuilds = 0
        /\ q_ret = "idle"
        /\ idx = None
        /\ pc = "done" => new_lines = lines

\* C13 witness: a call with one polyline has returned.
C13_Witness == Running /\ Len(lines) = 1 /\ pc = "done"

\* the number of available entries among the first i
AvailableUpTo(i) == Cardinality({j \in 1..i : available[j]})

\* C14: a rebuild leaves in the index exactly the polylines that were
\* available before it, in the same order, the k-th of them at position k,
\* every one available; the index has one flag per polyline it stores, and
\* as many available entries after the rebuild as before.
C14_RebuildKeepsAvailable ==
    /\ [](Len(available) = Len(index_lines))
    /\ [][rebuilds' # rebuilds =>
            /\ Len(index_lines') = IndexLen(available)
            /\ \A i \in 1..Len(index_lines) :
                   available[i] =>
                       /\ index_lines'[AvailableUpTo(i)] = index_lines[i]
                       /\ index_src'[AvailableUpTo(i)] = index_src[i]
            /\ \A k \in 1..Len(available') : available'[k]
            /\ Len(available') = Len(index_lines')
            /\ IndexLen(available') = IndexLen(available)]_vars

\* C14 witness: a rebuild has just dropped entries and kept two or more.
C14_Witness ==
    /\ rebuilds > 0
    /\ pc \in {"find_nearest_within", "find_nearest"}
    /\ Len(index_lines) >= 2
    /\ Len(index_lines) < Len(lines) - 1
    /\ \A k \in 1..Len(available) : available[k]

\* C15: a query rebuilds the index only while some entry of it is removed,
\* and the index stores strictly fewer entries after the rebuild than
\* before, whether find_nearest_within or find_nearest rebuilt it.
C15_RebuildShrinks ==
    [][rebuilds' # rebuilds =>
           /\ pc \in {"find_nearest_within", "find_nearest"}
           /\ \E i \in 1..Len(available) : ~available[i]
           /\ Len(index_lines') < Len(index_lines)]_vars

\* C15 witness: find_nearest has just rebuilt an index that tracks ends and
\* goes on with the entries left.
C15_Witness ==
    /\ rebuilds > 0
    /\ pc = "find_nearest"
    /\ index_reverse
    /\ Len(index_lines) >= 1

\* the code is inside find_nearest_within or find_nearest
InQuery == pc \in {"find_nearest_within", "find_nearest"}

\* linemerge or linesort holds the result of a query and is about to pop
AtPop == Running /\ pc \in {"splice", "after_nearest"}

\* C16: the index is rebuilt only inside a query, which then searches again
\* (or fails) and returns nothing it found before the rebuild; the id a query
\* returns is a position of an available entry of the index as it stands at
\* the return; the index is not rebuilt between the return and the pop; so
\* the id linemerge and linesort pass to pop is that of an available entry,
\* and pop never returns None.
C16_NoIdAcrossRebuild ==
    /\ [][rebuilds' # rebuilds =>
              InQuery /\ pc' \in {pc, "failed"} /\ idx' = idx]_vars
    /\ [][InQuery /\ pc' \notin {pc, "failed"} =>
              /\ index_lines' = index_lines
              /\ available' = available
              /\ rebuilds' = rebuilds
              /\ idx' # None =>
                     idx' \in 1..Len(index_lines) /\ available[idx']]_vars
    /\ [][Running /\ pc \in {"after_end", "after_start", "splice",
                             "after_nearest"} =>
              index_lines' = index_lines /\ rebuilds' = rebuilds]_vars
    /\ [](AtPop /\ idx # None =>
              idx \in 1..Len(index_lines) /\ available[idx])
    /\ [](Running /\ pc = "after_nearest" => idx # None)

\* C16 witness: linemerge or linesort is about to pop an id returned by a
\* query that rebuilt the index, other entries having been removed since.
C16_Witness ==
    /\ AtPop
    /\ idx # None
    /\ rebuilds > 0
    /\ \E i \in 1..Len(available) : ~available[i]

\* whether the query that has just returned could match the point pt: any
\* point for find_nearest, a point nearer than max_dist for
\* find_nearest_within
InReach(pt) ==
    q_max_dist = None \/ Dist2(pt, q_p) < q_max_dist * q_max_dist

\* the squares of the distances from q_p to the points the structure of the
\* start points (rev FALSE) or of the end points (rev TRUE) can match
Reachable(rev) ==
    {Dist2(Endpoint(i, rev), q_p) :
        i \in {j \in 1..Len(index_lines) :
                  available[j] /\ InReach(Endpoint(j, rev))}}

\* the least of a set of numbers that is not empty
Least(S) == CHOOSE v \in S : \A w \in S : v <= w

\* C17: when the index tracks ends and both an available start point and an
\* available end point can be matched, find_nearest_within and find_nearest
\* return the match of the end point, flag TRUE, only if it is strictly
\* nearer than every start point, and else, at equal distance too, the
\* match of a start point, flag FALSE; when the index does not track ends the
\* flag is always FALSE.
C17_StartWinsTies ==
    AfterQuery =>
        /\ ~index_reverse => ~reverse
        /\ index_reverse /\ Reachable(FALSE) # {} /\ Reachable(TRUE) # {} =>
               /\ idx # None
               /\ reverse <=> Least(Reachable(TRUE)) < Least(Reachable(FALSE))
               /\ Dist2(Endpoint(idx, reverse), q_p) = Least(Reachable(reverse))

\* C17 witness: a query of an index that tracks ends returns the match of a
\* start point while an available end point is at the same distance.
C17_Witness ==
    /\ AfterQuery
    /\ index_reverse
    /\ idx # None
    /\ ~reverse
    /\ Reachable(TRUE) # {}
    /\ Least(Reachable(TRUE)) = Dist2(Endpoint(idx, FALSE), q_p)

SourcesOf(cs) ==
    UNION {{cs[k][j].src : j \in 1..Len(cs[k])} : k \in 1..Len(cs)}

\* the polylines passed in that the index still has available
SourcesAvailable ==
    {index_src[i] : i \in {j \in 1..Len(available) : available[j]}}

\* C19: linemerge of two polylines or more uses every polyline passed in
\* exactly once, as the seed of a chain or as a match spliced onto one, and
\* in exactly one polyline of its output; every chain is seeded with the
\* available entry of lowest position, which is removed; every splice
\* removes the one entry it uses; and when linemerge returns no entry is
\* available.
C19_MergePartitions ==
    /\ [](op = "linemerge" /\ pc = "done" /\ Len(lines) >= 2 =>
              /\ SourcesOf(new_src) = 1..Len(lines)
              /\ TotalPoints(new_src) = Len(lines)
              /\ Len(new_src) = Len(new_lines)
              /\ \A i \in 1..Len(available) : ~available[i])
    /\ [](op = "linemerge" /\ pc \in {"grow", "after_end", "after_start",
                                      "splice", "find_nearest_within"} =>
              /\ SourcesOf(new_src) \cup SourcesOf(<<line_src>>)
                     \cup SourcesAvailable = 1..Len(lines)
              /\ TotalPoints(new_src) + Len(line_src) + IndexLen(available)
                     = Len(lines))
    /\ [][op = "linemerge" /\ pc = "merge_loop" /\ pc' = "grow" =>
              \E i \in 1..Len(available) :
                  /\ available[i]
                  /\ \A j \in 1..(i - 1) : ~available[j]
                  /\ available' = [available EXCEPT ![i] = FALSE]
                  /\ line' = index_lines[i]
                  /\ line_src' = <<[src |-> index_src[i], flipped |-> FALSE]>>]_vars
    /\ [][op = "linemerge" /\ pc = "splice" /\ pc' = "grow" =>
              /\ available[idx]
              /\ available' = [available EXCEPT ![idx] = FALSE]]_vars

\* C19 witness: linemerge returns three polylines or more of its input in
\* two output polylines, one of them a chain and one seeded after it.
C19_Witness ==
    /\ op = "linemerge"
    /\ pc = "done"
    /\ Len(lines) >= 3
    /\ Len(new_lines) >= 2
    /\ \E k \in 1..Len(new_src) : Len(new_src[k]) >= 2

====
